---- MODULE Spec2Model ----
(***************************************************************************)
(* The TTL cache of the NHL stats API (utils/cache: MemoryCache, CACHE_TTL) *)
(* and the read-through service functions built on it (services/nhl).      *)
(*                                                                         *)
(* Time is Date.now() in milliseconds.  The clock starts shortly before a  *)
(* UTC midnight so that a run can cross a calendar day.  JSON values are   *)
(* records; JS null is the record Null, and a number, a boolean or a       *)
(* string is a record that carries its JSON text.                          *)
(***************************************************************************)
EXTENDS Integers, Sequences, FiniteSets, TLC

VARIABLES
    now,              \* Date.now(), ms since the epoch
    cache,            \* MemoryCache.cache: Map<string, CacheEntry>
    cleanupInterval,  \* MemoryCache.cleanupInterval: TRUE while the timer is set
    written,          \* history: per key, the last set() and who made it
    calls,            \* the service calls: position, arguments, outcome
    workload          \* the queries the callers of this run ask for

vars == <<now, cache, cleanupInterval, written, calls, workload>>

-----------------------------------------------------------------------------
(* Bounds of the model *)

MaxPeriods == 1
MaxCalls == 2

-----------------------------------------------------------------------------
(* CACHE_TTL and the sweep period *)

LIVE_SCORES == 30000
SCHEDULE == 5 * 60000
STANDINGS == 5 * 60000
PLAYER_STATS == 10 * 60000
GAME_DETAILS == 30000
CLEANUP_PERIOD == 60000

-----------------------------------------------------------------------------
(* JSON values *)

Null == [json |-> "null"]

Team(abbrev, wins) == [teamAbbrev |-> abbrev, wins |-> wins]

\* Two upstream documents.  Their standings differ, and the second lists two
\* teams whose abbreviations differ only in letter case.
Doc(i) ==
    [json |-> "object", id |-> i,
     standings |->
        IF i = 1
        THEN << Team(<<"B", "O", "S">>, 30), Team(<<"T", "O", "R">>, 28) >>
        ELSE << Team(<<"T", "O", "R">>, 29), Team(<<"B", "o", "s">>, 31),
                Team(<<"B", "O", "S">>, 32) >>]

\* A JSON number, boolean or string, given by its text
Scalar(type, text) == [json |-> type, value |-> text]

Zero == Scalar("number", "0")
One == Scalar("number", "1")
False == Scalar("boolean", "false")
EmptyString == Scalar("string", "")

\* JS truthiness of a JSON value: null, 0, false and "" are falsy, every
\* object is truthy.
Truthy(v) ==
    CASE v.json = "null" -> FALSE
      [] v.json = "number" -> v.value # "0"
      [] v.json = "boolean" -> v.value # "false"
      [] v.json = "string" -> v.value # ""
      [] OTHER -> TRUE

-----------------------------------------------------------------------------
(* MemoryCache *)

NoCache == [k \in {} |-> Null]

MapDelete(c, key) == [k \in DOMAIN c \ {key} |-> c[k]]

\* get(key): the returned value and the map it leaves behind
get_ge(c, t, key) ==
    IF key \notin DOMAIN c THEN [value |-> Null, cache |-> c]
    ELSE IF t >= c[key].expiresAt
         THEN [value |-> Null, cache |-> MapDelete(c, key)]
         ELSE [value |-> c[key].data, cache |-> c]

get_stale(c, t, key) ==
    IF key \in DOMAIN c THEN [value |-> c[key].data, cache |-> c]
    ELSE [value |-> Null, cache |-> c]

get_touch(c, t, key) ==
    IF key \notin DOMAIN c THEN [value |-> Null, cache |-> c]
    ELSE IF t > c[key].expiresAt
         THEN [value |-> Null, cache |-> MapDelete(c, key)]
         ELSE [value |-> c[key].data,
               cache |-> [c EXCEPT ![key].expiresAt = @ + 1]]

get(c, t, key) ==
    IF key \notin DOMAIN c THEN [value |-> Null, cache |-> c]
    ELSE IF t > c[key].expiresAt
         THEN [value |-> Null, cache |-> MapDelete(c, key)]
         ELSE [value |-> c[key].data, cache |-> c]

set_first(c, t, key, data, ttlMs) ==
    IF key \in DOMAIN c
    THEN c
    ELSE [k \in DOMAIN c \cup {key} |->
            IF k = key THEN [data |-> data, expiresAt |-> t + ttlMs] ELSE c[k]]

set_unlessLive(c, t, key, data, ttlMs) ==
    IF key \in DOMAIN c /\ t <= c[key].expiresAt
    THEN c
    ELSE [k \in DOMAIN c \cup {key} |->
            IF k = key THEN [data |-> data, expiresAt |-> t + ttlMs] ELSE c[k]]

set_zeroAsDead(c, t, key, data, ttlMs) ==
    [k \in DOMAIN c \cup {key} |->
        IF k = key
        THEN [data |-> data,
              expiresAt |-> IF ttlMs = 0 THEN t - 1 ELSE t + ttlMs]
        ELSE c[k]]

set(c, t, key, data, ttlMs) ==
    [k \in DOMAIN c \cup {key} |->
        IF k = key THEN [data |-> data, expiresAt |-> t + ttlMs] ELSE c[k]]

delete_noop(c, key) == c

delete_clears(c, key) == NoCache

delete(c, key) == MapDelete(c, key)

clear(c) == NoCache

cleanup_ge(c, t) ==
    LET dead == {k \in DOMAIN c : t >= c[k].expiresAt}
    IN  [k \in DOMAIN c \ dead |-> c[k]]

cleanup_all(c, t) == NoCache

cleanup_late(c, t) ==
    LET dead == {k \in DOMAIN c : t > c[k].expiresAt + CLEANUP_PERIOD}
    IN  [k \in DOMAIN c \ dead |-> c[k]]

cleanup(c, t) ==
    LET dead == {k \in DOMAIN c : t > c[k].expiresAt}
    IN  [k \in DOMAIN c \ dead |-> c[k]]

-----------------------------------------------------------------------------
(* History of the store's use: per key, the last set() (value, instant,    *)
(* TTL, and the service call that made it; 0 is a direct caller), the set() *)
(* it overwrote, and whether a delete(), clear() or destroy() has removed   *)
(* the key since.  The history is never read by the program.                *)

NoHistory == [k \in {} |-> Null]
NoPrev == [none |-> TRUE]

NoteSet(w, t, key, data, ttlMs, by) ==
    [k \in DOMAIN w \cup {key} |->
        IF k = key
        THEN [state |-> "set", data |-> data, at |-> t, ttl |-> ttlMs, by |-> by,
              prev |-> IF key \in DOMAIN w /\ w[key].state = "set"
                       THEN [data |-> w[key].data,
                             outlives |-> w[key].at + w[key].ttl > t + ttlMs]
                       ELSE NoPrev]
        ELSE w[k]]

\* A removed key keeps only whether its entry was still unexpired when removed.
Removed(w, t, key, how) ==
    [state |-> how,
     wasLive |-> w[key].state = "set" /\ t <= w[key].at + w[key].ttl]

NoteDelete(w, t, key) ==
    IF key \in DOMAIN w
    THEN [w EXCEPT ![key] = Removed(w, t, key, "deleted")]
    ELSE w

NoteClear(w, t, how) ==
    [k \in DOMAIN w |-> Removed(w, t, k, how)]

IsSet(k) == k \in DOMAIN written /\ written[k].state = "set"

-----------------------------------------------------------------------------
(* The store's operations, called directly *)

StoreKeys == {"standings:1970-01-01", "game:2023020789"}
StoreValues == {Doc(1), Doc(2)}
StoreTTLs == {0, LIVE_SCORES}

\* The clock starts one short TTL before a UTC midnight and is observed at
\* the instants a whole number of short TTLs later, and one millisecond
\* after each of them.
StartTime == 24 * 60 * 60000 - LIVE_SCORES
Instants == {StartTime + p * LIVE_SCORES + e : p \in 0..MaxPeriods, e \in {0, 1}}

CacheGet(key) ==
    /\ cache' = get(cache, now, key).cache
    /\ UNCHANGED <<now, cleanupInterval, written, calls, workload>>

CacheSet(key, data, ttlMs) ==
    /\ cache' = set(cache, now, key, data, ttlMs)
    /\ written' = NoteSet(written, now, key, data, ttlMs, 0)
    /\ UNCHANGED <<now, cleanupInterval, calls, workload>>

CacheDelete_strict(key) ==
    /\ key \in DOMAIN cache
    /\ cache' = delete(cache, key)
    /\ written' = NoteDelete(written, now, key)
    /\ UNCHANGED <<now, cleanupInterval, calls, workload>>

CacheDelete(key) ==
    /\ cache' = delete(cache, key)
    /\ written' = NoteDelete(written, now, key)
    /\ UNCHANGED <<now, cleanupInterval, calls, workload>>

CacheClear ==
    /\ cache' = clear(cache)
    /\ written' = NoteClear(written, now, "cleared")
    /\ UNCHANGED <<now, cleanupInterval, calls, workload>>

\* The setInterval callback; it can only run while the timer is set.
Cleanup ==
    /\ cleanupInterval
    /\ cache' = cleanup(cache, now)
    /\ UNCHANGED <<now, cleanupInterval, written, calls, workload>>

Destroy_once ==
    /\ cleanupInterval
    /\ cleanupInterval' = FALSE
    /\ cache' = clear(cache)
    /\ written' = NoteClear(written, now, "destroyed")
    /\ UNCHANGED <<now, calls, workload>>

Destroy ==
    /\ cleanupInterval' = FALSE
    /\ cache' = clear(cache)
    /\ written' = NoteClear(written, now, "destroyed")
    /\ UNCHANGED <<now, calls, workload>>

\* Time passes, up to a later instant.
Tick(t) ==
    /\ t > now
    /\ now' = t
    /\ UNCHANGED <<cache, cleanupInterval, written, calls, workload>>

-----------------------------------------------------------------------------
(* services/nhl: dates, keys, endpoints *)

MS_PER_DAY == 24 * 60 * 60000

TwoDigits(n) ==
    LET digit == <<"0", "1", "2", "3", "4", "5", "6", "7", "8", "9">>
    IN  digit[(n \div 10) + 1] \o digit[(n % 10) + 1]

today_frozen(t) == "1970-01-01"

\* new Date().toISOString().split('T')[0] at clock value t: the UTC calendar
\* date, for the instants of January 1970 (the model's clock stays there).
today(t) == "1970-01-" \o TwoDigits((t \div MS_PER_DAY) + 1)

\* Each service function: the key it caches under, the endpoint it fetches
\* and the TTL it writes with.
getLiveScores_longTTL(t) ==
    [key |-> "live-scores:" \o today(t), endpoint |-> "/schedule/" \o today(t),
     ttl |-> SCHEDULE]

getLiveScores_sharedKey(t) ==
    [key |-> "schedule:" \o today(t), endpoint |-> "/schedule/" \o today(t),
     ttl |-> LIVE_SCORES]

getLiveScores(t) ==
    [key |-> "live-scores:" \o today(t), endpoint |-> "/schedule/" \o today(t),
     ttl |-> LIVE_SCORES]

getSchedule(date) ==
    [key |-> "schedule:" \o date, endpoint |-> "/schedule/" \o date,
     ttl |-> SCHEDULE]

getGameById_longTTL(gameId) ==
    [key |-> "game:" \o gameId,
     endpoint |-> "/gamecenter/" \o gameId \o "/landing",
     ttl |-> SCHEDULE]

getGameById(gameId) ==
    [key |-> "game:" \o gameId,
     endpoint |-> "/gamecenter/" \o gameId \o "/landing",
     ttl |-> GAME_DETAILS]

getStandings_dateless(t) ==
    [key |-> "standings", endpoint |-> "/standings/" \o today(t),
     ttl |-> STANDINGS]

getStandings(t) ==
    [key |-> "standings:" \o today(t), endpoint |-> "/standings/" \o today(t),
     ttl |-> STANDINGS]

getPlayerStats(playerId) ==
    [key |-> "player:" \o playerId,
     endpoint |-> "/player/" \o playerId \o "/landing",
     ttl |-> PLAYER_STATS]

\* getTeamStats caches nothing itself: it goes through getStandings.
Plan(fn, arg, t) ==
    CASE fn = "getLiveScores" -> getLiveScores(t)
      [] fn = "getSchedule" -> getSchedule(arg)
      [] fn = "getGameById" -> getGameById(arg)
      [] fn = "getStandings" -> getStandings(t)
      [] fn = "getPlayerStats" -> getPlayerStats(arg)
      [] fn = "getTeamStats" -> getStandings(t)

-----------------------------------------------------------------------------
(* getTeamStats: the scan of the standings *)

UpperCase == <<"A", "B", "C", "D", "E", "F", "G", "H", "I", "J", "K", "L", "M",
               "N", "O", "P", "Q", "R", "S", "T", "U", "V", "W", "X", "Y", "Z">>
LowerCase == <<"a", "b", "c", "d", "e", "f", "g", "h", "i", "j", "k", "l", "m",
               "n", "o", "p", "q", "r", "s", "t", "u", "v", "w", "x", "y", "z">>

\* The lower-case letter of each upper-case letter
LowerOf ==
    [ch \in {UpperCase[j] : j \in DOMAIN UpperCase} |->
        LowerCase[CHOOSE j \in DOMAIN UpperCase : UpperCase[j] = ch]]

\* String.prototype.toLowerCase on a string given as its characters
toLowerCase(str) ==
    [i \in DOMAIN str |->
        IF str[i] \in DOMAIN LowerOf THEN LowerOf[str[i]] ELSE str[i]]

\* Array.prototype.find with getTeamStats' predicate, then `team || null`
findTeam_exact(list, abbrev) ==
    LET hits == {i \in DOMAIN list : list[i].teamAbbrev = abbrev}
    IN  IF hits = {} THEN Null
        ELSE list[CHOOSE i \in hits : \A j \in hits : i <= j]

findTeam(list, abbrev) ==
    LET hits == {i \in DOMAIN list :
                    toLowerCase(list[i].teamAbbrev) = toLowerCase(abbrev)}
    IN  IF hits = {} THEN Null
        ELSE list[CHOOSE i \in hits : \A j \in hits : i <= j]

TypeErrorMessage == "Cannot read properties of null (reading 'standings')"

-----------------------------------------------------------------------------
(* The service calls.  A call runs without interruption up to its await of  *)
(* fetch(); it resumes when fetch() settles, and again when response.json() *)
(* settles.                                                                 *)

Calls == 1..MaxCalls

\* A call not made yet
IdleCall ==
    [pc |-> "idle", fn |-> "", arg |-> "", abbrev |-> << >>, key |-> "",
     endpoint |-> "", ttl |-> 0, found |-> [present |-> FALSE, live |-> FALSE],
     removed |-> FALSE, during |-> {}, ret |-> Null, error |-> "",
     fetches |-> 0, doc |-> Null]

InFlight(c) == calls[c].pc \in {"fetching", "parsing"}
Finished(c) == calls[c].pc \in {"returned", "rejected"}

\* What the caller of a service function gets from the standings or document
\* `data`: the document itself, or for getTeamStats the team found in it.
Outcome(call, data) ==
    IF call.fn # "getTeamStats"
    THEN [pc |-> "returned", ret |-> data, error |-> ""]
    ELSE IF data = Null
         THEN [pc |-> "rejected", ret |-> Null, error |-> TypeErrorMessage]
         ELSE [pc |-> "returned", ret |-> findTeam(data.standings, call.abbrev),
               error |-> ""]

\* const cached = cache.get(key); if (cached) return cached; else fetch(url)
Call_presentIsHit(c, fn, arg, abbrev) ==
    /\ calls[c].pc = "idle"
    /\ \A d \in Calls : d < c => calls[d].pc # "idle"
    /\ LET plan == Plan(fn, arg, now)
           cached == get(cache, now, plan.key)
           call == [fn |-> fn, arg |-> arg, abbrev |-> abbrev,
                    key |-> plan.key, endpoint |-> plan.endpoint,
                    ttl |-> plan.ttl,
                    found |-> IF plan.key \in DOMAIN cache
                              THEN [present |-> TRUE, entry |-> cache[plan.key],
                                    live |-> now <= cache[plan.key].expiresAt]
                              ELSE [present |-> FALSE, live |-> FALSE],
                    removed |-> cached.cache # cache,
                    during |-> {d \in Calls : InFlight(d)}]
       IN  /\ cache' = cached.cache
           /\ calls' = [calls EXCEPT ![c] =
                IF plan.key \in DOMAIN cached.cache
                THEN call @@ Outcome(call, cached.value) @@
                     [fetches |-> 0, doc |-> cached.value]
                ELSE call @@ [pc |-> "fetching", ret |-> Null, error |-> "",
                              fetches |-> 1, doc |-> Null]]
    /\ UNCHANGED <<now, cleanupInterval, written, workload>>

Call(c, fn, arg, abbrev) ==
    /\ calls[c].pc = "idle"
    /\ \A d \in Calls : d < c => calls[d].pc # "idle"
    /\ LET plan == Plan(fn, arg, now)
           cached == get(cache, now, plan.key)
           call == [fn |-> fn, arg |-> arg, abbrev |-> abbrev,
                    key |-> plan.key, endpoint |-> plan.endpoint,
                    ttl |-> plan.ttl,
                    \* history: the entry at the key before the call, whether
                    \* the call's get() removed it, and the earlier calls
                    \* still awaiting the upstream
                    found |-> IF plan.key \in DOMAIN cache
                              THEN [present |-> TRUE, entry |-> cache[plan.key],
                                    live |-> now <= cache[plan.key].expiresAt]
                              ELSE [present |-> FALSE, live |-> FALSE],
                    removed |-> cached.cache # cache,
                    during |-> {d \in Calls : InFlight(d)}]
       IN  /\ cache' = cached.cache
           /\ calls' = [calls EXCEPT ![c] =
                IF Truthy(cached.value)
                THEN call @@ Outcome(call, cached.value) @@
                     [fetches |-> 0, doc |-> cached.value]
                ELSE call @@ [pc |-> "fetching", ret |-> Null, error |-> "",
                              fetches |-> 1, doc |-> Null]]
    /\ UNCHANGED <<now, cleanupInterval, written, workload>>

\* fetch() rejects: the transport failed
FetchReject_asAbsent(c) ==
    /\ calls[c].pc = "fetching"
    /\ calls' = [calls EXCEPT ![c].pc = "returned", ![c].ret = Null]
    /\ UNCHANGED <<now, cache, cleanupInterval, written, workload>>

FetchReject_cachesFailure(c) ==
    /\ calls[c].pc = "fetching"
    /\ cache' = set(cache, now, calls[c].key, Null, calls[c].ttl)
    /\ calls' = [calls EXCEPT ![c].pc = "rejected", ![c].error = "fetch failed"]
    /\ UNCHANGED <<now, cleanupInterval, written, workload>>

FetchReject(c) ==
    /\ calls[c].pc = "fetching"
    /\ calls' = [calls EXCEPT ![c].pc = "rejected", ![c].error = "fetch failed"]
    /\ UNCHANGED <<now, cache, cleanupInterval, written, workload>>

\* fetch() rejects with the transport's error, whatever its message is
FetchRejectWith_wrapped(c, message) ==
    /\ calls[c].pc = "fetching"
    /\ calls' = [calls EXCEPT ![c].pc = "rejected",
                              ![c].error = "NHL API error: " \o message]
    /\ UNCHANGED <<now, cache, cleanupInterval, written, workload>>

FetchRejectWith_retry(c, message) ==
    /\ calls[c].pc = "fetching"
    /\ calls' = [calls EXCEPT ![c] =
            IF @.fetches < 2
            THEN [@ EXCEPT !.fetches = @ + 1]
            ELSE [@ EXCEPT !.pc = "rejected", !.error = message]]
    /\ UNCHANGED <<now, cache, cleanupInterval, written, workload>>

FetchRejectWith(c, message) ==
    /\ calls[c].pc = "fetching"
    /\ calls' = [calls EXCEPT ![c].pc = "rejected", ![c].error = message]
    /\ UNCHANGED <<now, cache, cleanupInterval, written, workload>>

\* fetch() resolves: fetchNHL throws unless response.ok, else awaits json()
FetchResolve_cachesFailure(c, response) ==
    /\ calls[c].pc = "fetching"
    /\ cache' = IF response.ok THEN cache
                ELSE set(cache, now, calls[c].key, Null, calls[c].ttl)
    /\ calls' = [calls EXCEPT ![c] =
            IF ~response.ok
            THEN [@ EXCEPT !.pc = "rejected",
                           !.error = "NHL API error: " \o ToString(response.status)
                                     \o " " \o response.statusText]
            ELSE [@ EXCEPT !.pc = "parsing"]]
    /\ UNCHANGED <<now, cleanupInterval, written, workload>>

FetchResolve_noStatus(c, response) ==
    /\ calls[c].pc = "fetching"
    /\ calls' = [calls EXCEPT ![c] =
            IF ~response.ok
            THEN [@ EXCEPT !.pc = "rejected", !.error = "NHL API error"]
            ELSE [@ EXCEPT !.pc = "parsing"]]
    /\ UNCHANGED <<now, cache, cleanupInterval, written, workload>>

FetchResolve(c, response) ==
    /\ calls[c].pc = "fetching"
    /\ calls' = [calls EXCEPT ![c] =
            IF ~response.ok
            THEN [@ EXCEPT !.pc = "rejected",
                           !.error = "NHL API error: " \o ToString(response.status)
                                     \o " " \o response.statusText]
            ELSE [@ EXCEPT !.pc = "parsing"]]
    /\ UNCHANGED <<now, cache, cleanupInterval, written, workload>>

\* response.json() resolves: cache.set(cacheKey, data, ttl); return data
JsonResolve_returnsFirst(c, data) ==
    /\ calls[c].pc = "parsing"
    /\ calls' = [calls EXCEPT ![c] =
                    Outcome(calls[c], data) @@ [doc |-> data] @@ calls[c]]
    /\ UNCHANGED <<now, cache, cleanupInterval, written, workload>>

\* the key kept in one place shared by the calls: the last call begun
JsonResolve_lastKey(c, data) ==
    /\ calls[c].pc = "parsing"
    /\ LET last == CHOOSE d \in Calls :
                        /\ calls[d].pc # "idle"
                        /\ \A e \in Calls : calls[e].pc # "idle" => e <= d
       IN  /\ cache' = set(cache, now, calls[last].key, data, calls[c].ttl)
           /\ written' = NoteSet(written, now, calls[last].key, data,
                                 calls[c].ttl, c)
    /\ calls' = [calls EXCEPT ![c] =
                    Outcome(calls[c], data) @@ [doc |-> data] @@ calls[c]]
    /\ UNCHANGED <<now, cleanupInterval, workload>>

JsonResolve_unlessDestroyed(c, data) ==
    /\ calls[c].pc = "parsing"
    /\ cache' = IF cleanupInterval
                THEN set(cache, now, calls[c].key, data, calls[c].ttl)
                ELSE cache
    /\ written' = IF cleanupInterval
                  THEN NoteSet(written, now, calls[c].key, data, calls[c].ttl, c)
                  ELSE written
    /\ calls' = [calls EXCEPT ![c] =
                    Outcome(calls[c], data) @@ [doc |-> data] @@ calls[c]]
    /\ UNCHANGED <<now, cleanupInterval, workload>>

JsonResolve_fromStart(c, data) ==
    /\ calls[c].pc = "parsing"
    /\ cache' = set(cache, StartTime, calls[c].key, data, calls[c].ttl)
    /\ written' = NoteSet(written, now, calls[c].key, data, calls[c].ttl, c)
    /\ calls' = [calls EXCEPT ![c] =
                    Outcome(calls[c], data) @@ [doc |-> data] @@ calls[c]]
    /\ UNCHANGED <<now, cleanupInterval, workload>>

JsonResolve(c, data) ==
    /\ calls[c].pc = "parsing"
    /\ cache' = set(cache, now, calls[c].key, data, calls[c].ttl)
    /\ written' = NoteSet(written, now, calls[c].key, data, calls[c].ttl, c)
    /\ calls' = [calls EXCEPT ![c] =
                    Outcome(calls[c], data) @@ [doc |-> data] @@ calls[c]]
    /\ UNCHANGED <<now, cleanupInterval, workload>>

-----------------------------------------------------------------------------
(* Request parameters.  A parameter is the sequence of its characters, so   *)
(* that the routes' regular expressions can be applied to it; Str gives the *)
(* string the service functions concatenate into keys and endpoints.        *)

Digits == {"0", "1", "2", "3", "4", "5", "6", "7", "8", "9"}
Letters == {UpperCase[j] : j \in DOMAIN UpperCase}
           \cup {LowerCase[j] : j \in DOMAIN LowerCase}

RECURSIVE Str(_)
Str(chars) == IF chars = << >> THEN "" ELSE Head(chars) \o Str(Tail(chars))

\* /^\d{4}-\d{2}-\d{2}$/.test(date)
dateRegex(date) ==
    /\ Len(date) = 10
    /\ \A i \in 1..10 :
            IF i \in {5, 8} THEN date[i] = "-" ELSE date[i] \in Digits

\* /^\d+$/.test(playerId)
playerIdRegex(playerId) ==
    /\ Len(playerId) >= 1
    /\ \A i \in 1..Len(playerId) : playerId[i] \in Digits

\* /^[A-Za-z]{2,4}$/.test(teamId)
teamIdRegex(teamId) ==
    /\ Len(teamId) \in 2..4
    /\ \A i \in 1..Len(teamId) : teamId[i] \in Letters

\* Date parameters: absent, a date, and three strings that are not dates
NoDate == << >>
DateParams ==
    {NoDate,
     <<"1", "9", "7", "0", "-", "0", "1", "-", "0", "1">>,
     <<"0", "1", "-", "0", "1", "-", "1", "9", "7", "0">>,
     <<"1", "9", "7", "0", "-", "1", "-", "1">>,
     <<"n", "o", "w">>}

MalformedDates == {Str(d) : d \in {p \in DateParams : p # NoDate /\ ~dateRegex(p)}}

-----------------------------------------------------------------------------
(* Inputs *)

Query(fn, arg, abbrev) == [fn |-> fn, arg |-> arg, abbrev |-> abbrev]
NoAbbrev == << >>

Dates == {"1970-01-01", "1970-01-02"}
GameIds == {"2023020789"}
PlayerIds == {"8478402"}

LiveScoresQuery == Query("getLiveScores", "", NoAbbrev)
StandingsQuery == Query("getStandings", "", NoAbbrev)
CachedQueries ==
    {LiveScoresQuery, StandingsQuery}
    \cup {Query("getSchedule", d, NoAbbrev) : d \in Dates}
    \cup {Query("getGameById", id, NoAbbrev) : id \in GameIds}
    \cup {Query("getPlayerStats", id, NoAbbrev) : id \in PlayerIds}

\* Queries on different keys do not meet in the store, so a run asks for one
\* cached query, repeatedly and concurrently, or for live scores together
\* with the schedule of a date.
Workloads ==
    {{q} : q \in CachedQueries}
    \cup {{LiveScoresQuery, Query("getSchedule", d, NoAbbrev)} : d \in Dates}

\* getTeamStats, whose calls all meet at the standings key: a run asks for
\* one team in two spellings, or for a team that is not in the standings.
TeamWorkloads ==
    {{Query("getTeamStats", "", <<"b", "o", "s">>),
      Query("getTeamStats", "", <<"B", "O", "S">>)},
     {Query("getTeamStats", "", <<"x", "y", "z">>)}}

Responses == {[ok |-> TRUE, status |-> 200, statusText |-> "OK"],
              [ok |-> FALSE, status |-> 404, statusText |-> "Not Found"]}
Bodies == {Doc(1), Doc(2), Null}

Start ==
    /\ now = StartTime
    /\ cache = NoCache
    /\ cleanupInterval = TRUE
    /\ written = NoHistory
    /\ calls = [c \in Calls |-> IdleCall]

\* The store used directly
InitStore == Start /\ workload = {}

NextStore ==
    \/ \E k \in StoreKeys : CacheGet(k)
    \/ \E k \in StoreKeys, v \in StoreValues, t \in StoreTTLs : CacheSet(k, v, t)
    \/ \E k \in StoreKeys : CacheDelete(k)
    \/ CacheClear
    \/ Cleanup
    \/ Destroy
    \/ \E t \in Instants : Tick(t)

SpecStore == InitStore /\ [][NextStore]_vars

\* The service functions, the upstream, the clock and the sweep
Init == Start /\ workload \in Workloads

Next ==
    \/ \E c \in Calls, q \in workload : Call(c, q.fn, q.arg, q.abbrev)
    \/ \E c \in Calls : FetchReject(c)
    \/ \E c \in Calls, r \in Responses : FetchResolve(c, r)
    \/ \E c \in Calls, data \in Bodies : JsonResolve(c, data)
    \/ Cleanup
    \/ \E t \in Instants : Tick(t)

Spec == Init /\ [][Next]_vars

\* getTeamStats over getStandings
InitTeam == Start /\ workload \in TeamWorkloads

SpecTeam == InitTeam /\ [][Next]_vars

\* Two stores given the same calls at the same clock values: the sweep runs
\* on the first at arbitrary points and never on the second.  In this
\* specification the variable cache holds the two maps.
InitPair ==
    /\ now = StartTime
    /\ cache = [swept |-> NoCache, lazy |-> NoCache]
    /\ cleanupInterval = TRUE
    /\ written = NoHistory
    /\ calls = [c \in Calls |-> IdleCall]
    /\ workload = {}

PairGet(key) ==
    /\ cache' = [swept |-> get(cache.swept, now, key).cache,
                 lazy |-> get(cache.lazy, now, key).cache]
    /\ UNCHANGED <<now, cleanupInterval, written, calls, workload>>

PairSet(key, data, ttlMs) ==
    /\ cache' = [swept |-> set(cache.swept, now, key, data, ttlMs),
                 lazy |-> set(cache.lazy, now, key, data, ttlMs)]
    /\ UNCHANGED <<now, cleanupInterval, written, calls, workload>>

PairDelete(key) ==
    /\ cache' = [swept |-> delete(cache.swept, key),
                 lazy |-> delete(cache.lazy, key)]
    /\ UNCHANGED <<now, cleanupInterval, written, calls, workload>>

PairClear ==
    /\ cache' = [swept |-> clear(cache.swept), lazy |-> clear(cache.lazy)]
    /\ UNCHANGED <<now, cleanupInterval, written, calls, workload>>

PairSweep ==
    /\ cache' = [swept |-> cleanup(cache.swept, now), lazy |-> cache.lazy]
    /\ UNCHANGED <<now, cleanupInterval, written, calls, workload>>

NextPair ==
    \/ \E k \in StoreKeys : PairGet(k)
    \/ \E k \in StoreKeys, v \in StoreValues, t \in StoreTTLs : PairSet(k, v, t)
    \/ \E k \in StoreKeys : PairDelete(k)
    \/ PairClear
    \/ PairSweep
    \/ \E t \in Instants : Tick(t)

SpecPair == InitPair /\ [][NextPair]_vars

\* The upstream failing in several ways: two non-success statuses and two
\* transport errors, for one cached query per run
FailResponses ==
    Responses \cup {[ok |-> FALSE, status |-> 500,
                     statusText |-> "Internal Server Error"]}
TransportErrors == {"fetch failed", "Network error"}

InitFail == Start /\ workload \in {{q} : q \in CachedQueries}

NextFail ==
    \/ \E c \in Calls, q \in workload : Call(c, q.fn, q.arg, q.abbrev)
    \/ \E c \in Calls, m \in TransportErrors : FetchRejectWith(c, m)
    \/ \E c \in Calls, r \in FailResponses : FetchResolve(c, r)
    \/ \E c \in Calls : JsonResolve(c, Doc(1))
    \/ \E t \in Instants : Tick(t)

SpecFail == InitFail /\ [][NextFail]_vars

\* Each service function alone, getTeamStats included, over the failing
\* upstream
InitEach ==
    /\ Start
    /\ workload \in {{q} : q \in CachedQueries}
                    \cup {{Query("getTeamStats", "", <<"b", "o", "s">>)}}

SpecEach == InitEach /\ [][NextFail]_vars

\* getSchedule asked for a string that is not a date
InitMalformed ==
    /\ Start
    /\ workload \in {{Query("getSchedule", m, NoAbbrev)} : m \in MalformedDates}

SpecMalformed == InitMalformed /\ [][Next]_vars

-----------------------------------------------------------------------------
(* The HTTP handlers.  The games handler (api/games) calls the service      *)
(* functions of api/_lib/nhl, which fetch without a cache; the players and  *)
(* teams routes call the cached service functions.  A request takes a call  *)
(* slot: a request the handler answers before calling a service function    *)
(* leaves its response there, and the other requests are answered when the  *)
(* service call finishes.                                                   *)

Request(route, method, param) ==
    [route |-> route, method |-> method, param |-> param]

\* api/_lib/nhl: getLiveScores is getSchedule(today) and getTeamStats goes
\* through getStandings; none of them uses the cache
LibEndpoint(fn, arg, t) ==
    CASE fn = "getLiveScores" -> "/schedule/" \o today(t)
      [] fn = "getGameById" -> "/gamecenter/" \o arg \o "/landing"
      [] fn \in {"getStandings", "getTeamStats"} -> "/standings/" \o today(t)
      [] OTHER -> "/schedule/" \o arg

LibCall(c, fn, arg) ==
    /\ calls[c].pc = "idle"
    /\ \A d \in Calls : d < c => calls[d].pc # "idle"
    /\ calls' = [calls EXCEPT ![c] =
            [pc |-> "fetching", fn |-> fn, arg |-> arg,
             endpoint |-> LibEndpoint(fn, arg, now), fetches |-> 1,
             during |-> {d \in Calls : InFlight(d)}] @@ IdleCall]
    /\ UNCHANGED <<now, cache, cleanupInterval, written, workload>>

\* response.json() resolves in a call of api/_lib/nhl: return data
LibJsonResolve(c, data) ==
    /\ calls[c].pc = "parsing"
    /\ calls[c].key = ""
    /\ calls' = [calls EXCEPT ![c].pc = "returned", ![c].ret = data,
                              ![c].doc = data]
    /\ UNCHANGED <<now, cache, cleanupInterval, written, workload>>

\* The handler answers without calling a service function.
Answer(c, param, response) ==
    /\ calls[c].pc = "idle"
    /\ \A d \in Calls : d < c => calls[d].pc # "idle"
    /\ calls' = [calls EXCEPT ![c] =
            [pc |-> "answered", arg |-> Str(param), response |-> response]
            @@ IdleCall]
    /\ UNCHANGED <<now, cache, cleanupInterval, written, workload>>

\* api/games handler
GamesHandler_noFormatCheck(c, req) ==
    IF req.method = "OPTIONS" THEN Answer(c, req.param, [status |-> 200])
    ELSE IF req.method # "GET"
    THEN Answer(c, req.param, [status |-> 405, error |-> "Method not allowed"])
    ELSE IF req.param # NoDate
    THEN LibCall(c, "getSchedule", Str(req.param))
    ELSE LibCall(c, "getLiveScores", "")

GamesHandler(c, req) ==
    IF req.method = "OPTIONS" THEN Answer(c, req.param, [status |-> 200])
    ELSE IF req.method # "GET"
    THEN Answer(c, req.param, [status |-> 405, error |-> "Method not allowed"])
    ELSE IF req.param # NoDate
    THEN IF ~dateRegex(req.param)
         THEN Answer(c, req.param,
                     [status |-> 400, error |-> "Invalid date format",
                      message |-> "Date must be in YYYY-MM-DD format"])
         ELSE LibCall(c, "getSchedule", Str(req.param))
    ELSE LibCall(c, "getLiveScores", "")

\* routes/players: router.get('/:playerId')
PlayersRoute_noCheck(c, req) ==
    Call(c, "getPlayerStats", Str(req.param), NoAbbrev)

PlayersRoute(c, req) ==
    IF ~playerIdRegex(req.param)
    THEN Answer(c, req.param,
                [status |-> 400, error |-> "Invalid player ID",
                 message |-> "Player ID must be numeric"])
    ELSE Call(c, "getPlayerStats", Str(req.param), NoAbbrev)

\* routes/teams: router.get('/:teamId')
TeamsRoute(c, req) ==
    IF ~teamIdRegex(req.param)
    THEN Answer(c, req.param,
                [status |-> 400, error |-> "Invalid team ID",
                 message |-> "Team ID must be a 2-4 letter abbreviation (e.g., BOS, TOR, VGK)"])
    ELSE Call(c, "getTeamStats", "", req.param)

\* What a handler sends once its service call has finished: the catch block
\* for a rejection, else the teams route's 404 for a falsy value (null is
\* the only one getTeamStats returns), else res.json(value)
Reply_nullIsError(route, call) ==
    IF call.pc = "rejected" \/ (route = "teams" /\ call.ret = Null)
    THEN [status |-> 500, error |-> "Internal server error",
          message |-> call.error]
    ELSE [status |-> 200, body |-> call.ret]

Reply(route, call) ==
    IF call.pc = "rejected"
    THEN [status |-> 500, error |-> "Internal server error",
          message |-> call.error]
    ELSE IF route = "teams" /\ call.ret = Null
    THEN [status |-> 404, error |-> "Team not found"]
    ELSE [status |-> 200, body |-> call.ret]

\* The requests of a run all go to one route.
Route == IF workload = {} THEN "" ELSE (CHOOSE q \in workload : TRUE).route

Answered(c) == calls[c].pc = "answered" \/ Finished(c)

Response(c) ==
    IF calls[c].pc = "answered" THEN calls[c].response
    ELSE Reply(Route, calls[c])

GamesRequests ==
    {Request("games", "GET", d) : d \in DateParams}
    \cup {Request("games", m, NoDate) : m \in {"OPTIONS", "POST"}}

PlayerParams ==
    {<<"8", "4", "7", "8", "4", "0", "2">>,
     <<"a", "b", "c", "1", "2", "3">>,
     <<"1", "2", "-", "3">>}
PlayersRequests == {Request("players", "GET", p) : p \in PlayerParams}

TeamParams ==
    {<<"b", "o", "s">>, <<"x", "y", "z">>, <<"b", "1">>,
     <<"B", "O", "S", "T", "N">>}
TeamsRequests == {Request("teams", "GET", p) : p \in TeamParams}

InitRoutes ==
    /\ Start
    /\ workload \in {GamesRequests, PlayersRequests, TeamsRequests}

NextRoutes ==
    \/ \E c \in Calls, req \in workload :
            /\ req.route = "games"
            /\ GamesHandler(c, req)
    \/ \E c \in Calls, req \in workload :
            /\ req.route = "players"
            /\ PlayersRoute(c, req)
    \/ \E c \in Calls, req \in workload :
            /\ req.route = "teams"
            /\ TeamsRoute(c, req)
    \/ \E c \in Calls : FetchReject(c)
    \/ \E c \in Calls, r \in Responses : FetchResolve(c, r)
    \/ \E c \in Calls, data \in Bodies :
            /\ calls[c].key # ""
            /\ JsonResolve(c, data)
    \/ \E c \in Calls, data \in Bodies : LibJsonResolve(c, data)

SpecRoutes == InitRoutes /\ [][NextRoutes]_vars

-----------------------------------------------------------------------------
(* Claims about the store, checked under SpecStore.  "get(k) returns x in  *)
(* this state" is Returned(k) = x: the value a get(k) issued now returns.  *)

Returned(k) == get(cache, now, k).value

C2_Visible ==
    \A k \in StoreKeys :
        IF k \in DOMAIN cache /\ now <= cache[k].expiresAt
        THEN Returned(k) = cache[k].data
        ELSE /\ Returned(k) = Null
             /\ k \in DOMAIN cache => Returned(k) # cache[k].data

\* An expired entry that no sweep or read has removed yet.
C2_Witness ==
    \E k \in StoreKeys : k \in DOMAIN cache /\ now > cache[k].expiresAt

\* C6: after set(k, v1, t1) then set(k, v2, t2), get(k) returns v2 until t2
\* has elapsed since the second set and absent afterwards; v1 is never
\* returned again, also when the first set's expiry lay after the second's.
C6_Overwrite ==
    \A k \in StoreKeys :
        (IsSet(k) /\ written[k].prev # NoPrev) =>
            /\ now <= written[k].at + written[k].ttl => Returned(k) = written[k].data
            /\ now > written[k].at + written[k].ttl => Returned(k) = Null
            /\ written[k].prev.data # written[k].data =>
                    Returned(k) # written[k].prev.data

\* v2 has expired at a time when v1, had it kept its own expiry, would still
\* be returned.
C6_Witness ==
    \E k \in StoreKeys :
        /\ IsSet(k)
        /\ written[k].prev # NoPrev
        /\ written[k].prev.data # written[k].data
        /\ written[k].prev.outlives
        /\ now > written[k].at + written[k].ttl

\* C7: after delete(k), get(k) returns absent whatever TTL the entry had;
\* after clear(), get(k) returns absent for every key set before the clear.
C7_Removed ==
    \A k \in DOMAIN written :
        written[k].state \in {"deleted", "cleared"} => Returned(k) = Null

\* A delete of an unexpired entry, and a clear of an unexpired entry.
C7_Witness ==
    /\ \E k \in DOMAIN written : written[k].state = "deleted" /\ written[k].wasLive
    /\ \E k \in DOMAIN written : written[k].state = "cleared" /\ written[k].wasLive

-----------------------------------------------------------------------------
(* Claims about the service functions, checked under Spec *)

Started(c) == calls[c].pc # "idle"
Returned1(c) == calls[c].pc = "returned"

\* The call was rejected because its upstream call failed.
UpstreamFailed(c) ==
    calls[c].pc = "rejected" /\ calls[c].error # TypeErrorMessage

\* No other call was awaiting the upstream when c started, and none has
\* started since.
Solo(c) ==
    /\ calls[c].during = {}
    /\ \A d \in Calls : d > c => ~Started(d)

WroteNothing(c) ==
    \A k \in DOMAIN written : written[k].state = "set" => written[k].by # c

\* C3 as stated: from an empty cache, the first call of any cached service
\* function makes exactly one upstream call and leaves an entry at its key
\* holding the upstream value; a second call for the same parameters made
\* immediately after the first completes makes no upstream call and returns
\* the identical value.
C3_AsStated ==
    \A c \in Calls :
        /\ (Started(c) /\ ~calls[c].found.present) => calls[c].fetches = 1
        /\ (/\ Returned1(c) /\ calls[c].fetches = 1
            /\ IsSet(calls[c].key)
            /\ written[calls[c].key].by = c /\ written[calls[c].key].at = now
            /\ Plan(calls[c].fn, calls[c].arg, now).key = calls[c].key)
           => /\ calls[c].key \in DOMAIN cache
              /\ cache[calls[c].key].data = calls[c].ret
              /\ Truthy(Returned(calls[c].key))
              /\ Returned(calls[c].key) = calls[c].ret

\* C4 as stated: a call that finds an unexpired entry at its key returns that
\* entry's value and makes no upstream call, whatever the cached value is.
C4_AsStated ==
    \A c \in Calls :
        (Started(c) /\ calls[c].found.live)
        => /\ Returned1(c)
           /\ calls[c].fetches = 0
           /\ calls[c].ret = calls[c].found.entry.data

\* C5 as stated: when the upstream call of a call fails, the call rejects and
\* leaves the cache mapping exactly as it was before the call.
C5_AsStated ==
    \A c \in Calls :
        UpstreamFailed(c) => /\ ~calls[c].removed
                             /\ WroteNothing(c)

\* C5 amended: when the upstream call of a call fails (non-success status or
\* transport error), the call rejects; it creates no entry and changes no
\* entry's value or expiry, the only change it can make to the mapping being
\* its initial get's removal of an already expired entry at its key; and the
\* next call for the same parameters makes a new upstream call.
C5_FailureNotCached ==
    \A c \in Calls :
        UpstreamFailed(c) =>
            /\ calls[c].fetches = 1
            /\ WroteNothing(c)
            /\ calls[c].removed =>
                    calls[c].found.present /\ ~calls[c].found.live
            /\ Solo(c) =>
                /\ ~Truthy(Returned(calls[c].key))
                /\ calls[c].key \in DOMAIN cache =>
                        /\ calls[c].found.present
                        /\ cache[calls[c].key] = calls[c].found.entry

\* A call that failed on a 404 alone, and whose get() had removed an expired
\* entry at its key.
C5_Witness ==
    \E c \in Calls :
        /\ UpstreamFailed(c)
        /\ calls[c].error = "NHL API error: 404 Not Found"
        /\ Solo(c)
        /\ calls[c].removed

\* C8: for the same date, getLiveScores and getSchedule(date) write under two
\* different keys with TTLs of 30 s and 5 min: once both are populated at the
\* same instant and more than 30 s but less than 5 min have passed, the
\* live-scores entry is absent while the schedule entry is still returned.
C8_TwoKeysTwoTTLs ==
    \A d \in Dates :
        LET lk == "live-scores:" \o d
            sk == "schedule:" \o d
        IN  /\ lk # sk
            /\ IsSet(lk) => written[lk].ttl = 30000
            /\ IsSet(sk) => written[sk].ttl = 300000
            /\ (/\ IsSet(lk) /\ IsSet(sk)
                /\ written[lk].at = written[sk].at
                /\ now > written[lk].at + 30000
                /\ now < written[lk].at + 300000)
               => /\ Returned(lk) = Null
                  /\ Returned(sk) = written[sk].data

\* Both entries written at one instant with documents, 30 s and 1 ms ago.
C8_Witness ==
    \E d \in Dates :
        LET lk == "live-scores:" \o d
            sk == "schedule:" \o d
        IN  /\ IsSet(lk) /\ IsSet(sk)
            /\ written[lk].at = written[sk].at
            /\ Truthy(written[lk].data) /\ Truthy(written[sk].data)
            /\ now = written[lk].at + 30001

\* C9: when a call starts for a key that is not cached while another call
\* for the same key is still awaiting the upstream, both make their own
\* upstream call and both write the cache; the key then holds one entry,
\* whose value is that of the call that wrote last, whichever started first.
C9_LastWriteWins ==
    \A c, d \in Calls :
        (/\ c \in calls[d].during
         /\ calls[c].key = calls[d].key
         /\ ~calls[d].found.live)
        => /\ calls[c].fetches = 1 /\ calls[d].fetches = 1
           /\ (Returned1(c) /\ Returned1(d)) =>
                /\ IsSet(calls[c].key)
                /\ LET w == written[calls[c].key]
                   IN  (w.by \in {c, d} /\ now <= w.at + w.ttl)
                       => /\ calls[c].key \in DOMAIN cache
                          /\ Returned(calls[c].key) = calls[w.by].ret

\* Two overlapping calls for one key returned different documents, and the
\* one started first wrote last.
C9_Witness ==
    \E c, d \in Calls :
        /\ c \in calls[d].during
        /\ calls[c].key = calls[d].key
        /\ Returned1(c) /\ Returned1(d)
        /\ calls[c].ret # calls[d].ret
        /\ Truthy(calls[c].ret) /\ Truthy(calls[d].ret)
        /\ written[calls[c].key].by = c
        /\ now <= written[calls[c].key].at + written[calls[c].key].ttl

-----------------------------------------------------------------------------
(* Claims about getTeamStats, checked under SpecTeam *)

\* Two characters are the same letter in either case, or the same character.
CasePairs == {{UpperCase[j], LowerCase[j]} : j \in DOMAIN UpperCase}

SameLetter(x, y) == x = y \/ {x, y} \in CasePairs

EqualIgnoringCase(s, t) ==
    /\ Len(s) = Len(t)
    /\ \A i \in 1..Len(s) : SameLetter(s[i], t[i])

\* C10: getTeamStats(a) returns the first standings entry whose abbreviation
\* equals a ignoring letter case, so two spellings of one abbreviation get
\* the same entry; when no entry matches it returns null and raises no error.
C10_TeamLookup ==
    \A c \in Calls :
        (Started(c) /\ calls[c].fn = "getTeamStats" /\ Truthy(calls[c].doc)) =>
            LET list == calls[c].doc.standings
                match(i) == EqualIgnoringCase(list[i].teamAbbrev, calls[c].abbrev)
            IN  /\ Returned1(c) /\ calls[c].error = ""
                /\ (\A i \in DOMAIN list : ~match(i)) => calls[c].ret = Null
                /\ \A i \in DOMAIN list :
                        (match(i) /\ \A j \in 1..(i - 1) : ~match(j))
                        => calls[c].ret = list[i]
                /\ \A d \in Calls :
                        (/\ Started(d) /\ calls[d].fn = "getTeamStats"
                         /\ calls[d].doc = calls[c].doc
                         /\ EqualIgnoringCase(calls[d].abbrev, calls[c].abbrev))
                        => calls[d].ret = calls[c].ret

\* "bos" and "BOS" were both looked up in standings whose first match is
\* spelled "Bos" and is followed by "BOS".
C10_Witness ==
    \E c, d \in Calls :
        /\ calls[c].fn = "getTeamStats" /\ calls[d].fn = "getTeamStats"
        /\ Returned1(c) /\ Returned1(d)
        /\ calls[c].abbrev = <<"b", "o", "s">>
        /\ calls[d].abbrev = <<"B", "O", "S">>
        /\ calls[c].doc = Doc(2) /\ calls[d].doc = Doc(2)
        /\ calls[c].ret = Team(<<"B", "o", "s">>, 31)

\* A lookup of a team that is not in the standings returned null.
C10_WitnessAbsent ==
    \E c \in Calls :
        /\ calls[c].fn = "getTeamStats" /\ Returned1(c)
        /\ calls[c].abbrev = <<"x", "y", "z">>
        /\ Truthy(calls[c].doc) /\ calls[c].ret = Null

-----------------------------------------------------------------------------
(* More claims about getTeamStats, checked under SpecTeam *)

StandingsKeys == {"standings:" \o d : d \in Dates}

NoMatch(list, abbrev) ==
    \A i \in DOMAIN list : ~EqualIgnoringCase(list[i].teamAbbrev, abbrev)

\* C11 as stated: getTeamStats has no cache entry of its own, the only keys it
\* touches being the standings keys it reaches through getStandings; when the
\* standings entry is cache-hot (present and unexpired) a getTeamStats call
\* makes no upstream call, and otherwise it makes at most one.
C11_AsStated ==
    /\ DOMAIN cache \subseteq StandingsKeys
    /\ DOMAIN written \subseteq StandingsKeys
    /\ \A c \in Calls :
        (Started(c) /\ calls[c].fn = "getTeamStats") =>
            /\ calls[c].key \in StandingsKeys
            /\ calls[c].ttl = 300000
            /\ calls[c].fetches <= 1
            /\ calls[c].found.live => calls[c].fetches = 0

\* C12: getTeamStats returns null only when the standings were obtained and
\* no abbreviation in them matches; when the standings fetch fails it rejects
\* with the upstream's failure; a call that did not obtain the standings is
\* never answered with null.
C12_AbsentIsNotFailure ==
    \A c \in Calls :
        (Finished(c) /\ calls[c].fn = "getTeamStats") =>
            /\ Returned1(c) =>
                /\ calls[c].error = ""
                /\ Truthy(calls[c].doc)
                /\ calls[c].ret = Null
                        <=> NoMatch(calls[c].doc.standings, calls[c].abbrev)
            /\ ~Truthy(calls[c].doc) =>
                /\ calls[c].pc = "rejected"
                /\ calls[c].error # ""
            /\ UpstreamFailed(c) =>
                /\ calls[c].fetches = 1
                /\ calls[c].error \in {"fetch failed",
                                       "NHL API error: 404 Not Found"}

\* One lookup of a team that is not in the standings was rejected on a 404
\* and another returned null from standings that were obtained.
C12_Witness ==
    \E c, d \in Calls :
        /\ calls[c].fn = "getTeamStats" /\ calls[d].fn = "getTeamStats"
        /\ calls[c].pc = "rejected"
        /\ calls[c].error = "NHL API error: 404 Not Found"
        /\ Returned1(d) /\ calls[d].ret = Null
        /\ calls[d].abbrev = <<"x", "y", "z">>
        /\ calls[d].doc = Doc(1)

-----------------------------------------------------------------------------
(* More claims about the store, checked under SpecStore *)

\* C13: destroy() stops the sweep timer, which never runs or restarts
\* afterwards, and removes every entry; destroy() can always be called, and
\* called on a destroyed store it leaves the store as it is.
C13_DestroyIdempotent ==
    /\ [](ENABLED Destroy)
    /\ [](~cleanupInterval => ~ENABLED Cleanup)
    /\ [][/\ ~cleanupInterval => ~cleanupInterval'
          /\ Destroy =>
                /\ ~cleanupInterval'
                /\ cache' = NoCache
                /\ (~cleanupInterval /\ cache = NoCache) =>
                        /\ cleanupInterval' = cleanupInterval
                        /\ cache' = cache]_vars

\* A store destroyed twice before the clock first moved: every entry set by
\* then was unexpired, and only a second destroy() finds nothing to remove.
C13_Witness ==
    /\ now = StartTime
    /\ ~cleanupInterval
    /\ cache = NoCache
    /\ \E k \in DOMAIN written :
            written[k].state = "destroyed" /\ ~written[k].wasLive

C18_Total ==
    /\ \A k \in StoreKeys :
        /\ ENABLED CacheGet(k)
        /\ ENABLED CacheDelete(k)
        /\ \A v \in StoreValues, t \in StoreTTLs : ENABLED CacheSet(k, v, t)
    /\ ENABLED CacheClear
    /\ ENABLED Destroy
    /\ cleanupInterval => ENABLED Cleanup
    /\ DOMAIN cache \subseteq StoreKeys
    /\ \A k \in DOMAIN cache :
        cache[k].data \in StoreValues /\ cache[k].expiresAt >= StartTime

\* A destroyed store in use again: one key holds an entry, the other was
\* never set or has been removed.
C18_Witness ==
    /\ ~cleanupInterval
    /\ \E k \in StoreKeys : k \in DOMAIN cache
    /\ \E k \in StoreKeys : k \notin DOMAIN cache

\* C19: get(k) removes the entry at k when it is present and expired, and
\* returns absent; on an unexpired or absent key it changes nothing in the
\* map, the entry's expiresAt included.
C19_GetFrame ==
    /\ [](\A k \in StoreKeys :
            LET r == get(cache, now, k)
            IN  IF k \in DOMAIN cache /\ now > cache[k].expiresAt
                THEN /\ r.value = Null
                     /\ DOMAIN r.cache = DOMAIN cache \ {k}
                     /\ \A j \in DOMAIN r.cache : r.cache[j] = cache[j]
                ELSE r.cache = cache)
    /\ [][\A k \in StoreKeys :
            CacheGet(k) =>
                IF k \in DOMAIN cache /\ now > cache[k].expiresAt
                THEN /\ DOMAIN cache' = DOMAIN cache \ {k}
                     /\ \A j \in DOMAIN cache' : cache'[j] = cache[j]
                ELSE cache' = cache]_vars

\* With the timer stopped, only a get can have removed the expired entry
\* that was set after the store was destroyed.
C19_Witness ==
    /\ ~cleanupInterval
    /\ \E k \in StoreKeys :
        /\ IsSet(k)
        /\ now > written[k].at + written[k].ttl
        /\ k \notin DOMAIN cache

\* C20: a sweep removes exactly the entries whose expiresAt has passed at
\* the time it runs and leaves every other entry as it is; an entry that
\* get would still return is never removed.
C20_Sweep ==
    [][Cleanup =>
        /\ DOMAIN cache' = {k \in DOMAIN cache : now <= cache[k].expiresAt}
        /\ \A k \in DOMAIN cache' : cache'[k] = cache[k]
        /\ \A k \in DOMAIN cache :
                Returned(k) = cache[k].data =>
                    k \in DOMAIN cache' /\ cache'[k] = cache[k]]_vars

\* At the instant an entry expires at, with the timer set: an expired entry
\* is gone and the entry at its expiry instant is still there.
C20_Witness ==
    /\ cleanupInterval
    /\ \E k, j \in StoreKeys :
        /\ IsSet(k) /\ now > written[k].at + written[k].ttl
        /\ k \notin DOMAIN cache
        /\ IsSet(j) /\ written[j].ttl > 0
        /\ now = written[j].at + written[j].ttl
        /\ j \in DOMAIN cache

-----------------------------------------------------------------------------
(* More claims about the service functions *)

\* The TTL policy table, in milliseconds
PolicyTTL(fn) ==
    CASE fn = "getLiveScores" -> 30000
      [] fn = "getSchedule" -> 300000
      [] fn = "getStandings" -> 300000
      [] fn = "getPlayerStats" -> 600000
      [] fn = "getGameById" -> 30000

\* C15 (under Spec): every entry a service function writes carries the TTL
\* of its own category: live scores 30 s, schedule 5 min, standings 5 min,
\* player stats 10 min, game details 30 s.
C15_PolicyTTL ==
    \A k \in DOMAIN written :
        (written[k].state = "set" /\ written[k].by \in Calls) =>
            LET c == written[k].by
            IN  /\ calls[c].key = k
                /\ written[k].ttl = PolicyTTL(calls[c].fn)
                /\ k \in DOMAIN cache =>
                        cache[k].expiresAt
                            = written[k].at + PolicyTTL(calls[c].fn)

\* A game was written with 30 s to live, and read again by a later call.
C15_Witness ==
    \E c, d \in Calls :
        /\ calls[c].fn = "getGameById" /\ calls[d].fn = "getGameById"
        /\ IsSet(calls[c].key) /\ written[calls[c].key].by = c
        /\ calls[c].key \in DOMAIN cache
        /\ cache[calls[c].key].expiresAt = written[calls[c].key].at + 30000
        /\ Returned1(d) /\ calls[d].fetches = 0

\* The UTC calendar date of a clock value in the first days of 1970
UTCDate(t) ==
    CASE t < 86400000 -> "1970-01-01"
      [] t >= 86400000 /\ t < 2 * 86400000 -> "1970-01-02"

DayKey(fn, t) ==
    IF fn = "getStandings" THEN "standings:" \o UTCDate(t)
    ELSE "live-scores:" \o UTCDate(t)

\* C16 (under Spec): getStandings and getLiveScores use the key of the
\* current UTC date: a call that finds no entry under today's key calls the
\* upstream, whatever entry another day's key holds, and a call that makes
\* no upstream call returns the value under today's key.
C16_DayKey ==
    [][\A c \in Calls :
        (/\ calls[c].pc = "idle" /\ calls'[c].pc # "idle"
         /\ calls'[c].fn \in {"getStandings", "getLiveScores"})
        => LET k == DayKey(calls'[c].fn, now)
           IN  /\ calls'[c].key = k
               /\ k \notin DOMAIN cache =>
                    /\ calls'[c].pc = "fetching"
                    /\ calls'[c].fetches = 1
               /\ calls'[c].fetches = 0 =>
                    /\ k \in DOMAIN cache
                    /\ calls'[c].ret = cache[k].data]_vars

\* On the second day a call is awaiting the upstream although the first
\* day's entry, holding a document, has not expired.
C16_Witness ==
    \E c \in Calls, fn \in {"getStandings", "getLiveScores"} :
        LET old == DayKey(fn, StartTime)
        IN  /\ calls[c].fn = fn
            /\ calls[c].key = DayKey(fn, MS_PER_DAY)
            /\ calls[c].key # old
            /\ calls[c].pc = "fetching"
            /\ old \in DOMAIN cache
            /\ now <= cache[old].expiresAt
            /\ Truthy(cache[old].data)

\* The rejection a caller sees for a non-success response
StatusError(r) ==
    CASE r.status = 404 -> "NHL API error: 404 Not Found"
      [] r.status = 500 -> "NHL API error: 500 Internal Server Error"

\* C17 (under SpecFail): an upstream failure reaches the caller unchanged: a
\* non-success status rejects the call with an error carrying that status
\* code and reason text, a transport failure rejects it with the transport's
\* own message; the call gets no value, and the rejection is final.
C17_PassThrough ==
    [][\A c \in Calls :
        /\ \A r \in FailResponses :
            (FetchResolve(c, r) /\ ~r.ok) =>
                /\ calls'[c].pc = "rejected"
                /\ calls'[c].error = StatusError(r)
                /\ calls'[c].ret = Null
        /\ \A m \in TransportErrors :
            FetchRejectWith(c, m) =>
                /\ calls'[c].pc = "rejected"
                /\ calls'[c].error = m
                /\ calls'[c].ret = Null
        /\ calls[c].pc = "rejected" => calls'[c] = calls[c]
        /\ calls'[c].pc = "returned" =>
                calls[c].pc \in {"idle", "parsing", "returned"}]_vars

\* One call was rejected on a 500 and another on a network error.
C17_Witness ==
    \E c, d \in Calls :
        /\ calls[c].pc = "rejected"
        /\ calls[c].error = "NHL API error: 500 Internal Server Error"
        /\ calls[d].pc = "rejected"
        /\ calls[d].error = "Network error"

-----------------------------------------------------------------------------
(* The sweep and the reads (under SpecPair), key locality (under SpecStore) *)

\* C21: after any sequence of set, get, delete, clear and clock advances, a
\* get of any key returns the same value from the store whose sweep runs at
\* arbitrary points as from the store whose sweep never runs.
C21_SweepUnobservable ==
    \A k \in StoreKeys :
        get(cache.swept, now, k).value = get(cache.lazy, now, k).value

\* The sweep has removed an expired entry that the store never swept still
\* holds, while both stores hold an unexpired entry at the other key.
C21_Witness ==
    \E k, j \in StoreKeys :
        /\ k \in DOMAIN cache.lazy /\ k \notin DOMAIN cache.swept
        /\ j \in DOMAIN cache.lazy /\ j \in DOMAIN cache.swept
        /\ now <= cache.lazy[j].expiresAt

\* The entries at the keys other than k are the same before and after.
OthersKept(k) ==
    \A j \in (DOMAIN cache \cup DOMAIN cache') \ {k} :
        /\ j \in DOMAIN cache /\ j \in DOMAIN cache'
        /\ cache'[j] = cache[j]

\* C28: set(k, ...), delete(k) and get(k) with its removal on expiry never
\* create, remove or change the entry of another key.
C28_KeyLocal ==
    [][\A k \in StoreKeys :
        /\ CacheGet(k) => OthersKept(k)
        /\ CacheDelete(k) => OthersKept(k)
        /\ \A v \in StoreValues, t \in StoreTTLs :
                CacheSet(k, v, t) => OthersKept(k)]_vars

\* One key was deleted while its entry was unexpired, and the other key's
\* entry, set before that delete, is still returned.
C28_Witness ==
    \E k, j \in StoreKeys :
        /\ k # j
        /\ k \in DOMAIN written
        /\ written[k].state = "deleted" /\ written[k].wasLive
        /\ k \notin DOMAIN cache
        /\ IsSet(j)
        /\ j \in DOMAIN cache
        /\ Returned(j) = written[j].data

-----------------------------------------------------------------------------
(* Retries (under SpecEach) and malformed dates (under SpecMalformed) *)

\* C22: no service call, getTeamStats included, makes more than one upstream
\* call: the count is fixed when the call starts, and a failure of the
\* upstream rejects the call in the same step without another upstream call.
C22_NoRetry ==
    /\ [](\A c \in Calls :
            /\ calls[c].fetches <= 1
            /\ calls[c].pc = "rejected" => calls[c].fetches = 1)
    /\ [][\A c \in Calls :
            /\ calls[c].pc # "idle" => calls'[c].fetches = calls[c].fetches
            /\ \A r \in FailResponses :
                (FetchResolve(c, r) /\ ~r.ok) => calls'[c].pc = "rejected"
            /\ \A m \in TransportErrors :
                FetchRejectWith(c, m) => calls'[c].pc = "rejected"]_vars

\* Two getTeamStats calls, each rejected after its one upstream call failed.
C22_Witness ==
    \A c \in {1, 2} :
        /\ calls[c].fn = "getTeamStats"
        /\ calls[c].pc = "rejected"
        /\ calls[c].fetches = 1
        /\ calls[c].error \in TransportErrors

\* C23 as stated: getSchedule called with a malformed date never stores an
\* entry at "schedule:" + that string, and every such call reaches the
\* upstream.
C23_AsStated ==
    \A c \in Calls :
        Started(c) =>
            /\ calls[c].fetches = 1
            /\ calls[c].key \notin DOMAIN cache

\* C23 amended: getSchedule called with a malformed date does not crash and
\* treats the string like any date, under the key "schedule:" + string and
\* the endpoint "/schedule/" + string; as long as no upstream call for it
\* has succeeded, no entry is stored at that key and every such call
\* reaches the upstream, and a call that does not reach the upstream
\* returns what a successful upstream call stored.
C23_Malformed ==
    \A c \in Calls :
        Started(c) =>
            /\ calls[c].arg \in {"01-01-1970", "1970-1-1", "now"}
            /\ calls[c].key = "schedule:" \o calls[c].arg
            /\ calls[c].endpoint = "/schedule/" \o calls[c].arg
            /\ calls[c].pc \in {"fetching", "parsing", "returned", "rejected"}
            /\ calls[c].pc = "rejected" =>
                    calls[c].error \in {"fetch failed",
                                        "NHL API error: 404 Not Found"}
            /\ calls[c].key \notin DOMAIN written =>
                    /\ calls[c].key \notin DOMAIN cache
                    /\ calls[c].fetches = 1
            /\ calls[c].fetches = 0 =>
                    /\ IsSet(calls[c].key)
                    /\ calls[c].ret \in Bodies /\ Truthy(calls[c].ret)

\* Two calls for "now" have both been rejected by the upstream, and there is
\* no entry at the key.
C23_Witness ==
    /\ \A c \in {1, 2} :
        /\ calls[c].arg = "now"
        /\ UpstreamFailed(c)
        /\ calls[c].fetches = 1
    /\ "schedule:now" \notin DOMAIN cache

-----------------------------------------------------------------------------
(* Keys of live scores and schedule, suspension points and the instant the  *)
(* TTL counts from, checked under Spec                                      *)

\* C24: getLiveScores works only under "live-scores:" + date and getSchedule
\* only under "schedule:" + date: a step of a call never creates, removes or
\* changes an entry at another key, a call that finds no entry at its own key
\* calls the upstream whatever the other key holds, and for one date the two
\* use two different keys and one endpoint.
C24_OwnKey ==
    /\ [](\A c \in Calls :
            Started(c) =>
                /\ calls[c].fn = "getLiveScores" =>
                        calls[c].key \in {"live-scores:" \o d : d \in Dates}
                /\ calls[c].fn = "getSchedule" =>
                        calls[c].key = "schedule:" \o calls[c].arg
                /\ ~calls[c].found.present => calls[c].fetches = 1
                /\ \A k \in DOMAIN written :
                        (written[k].state = "set" /\ written[k].by = c)
                            => k = calls[c].key
                /\ \A d \in Calls :
                        (/\ calls[c].fn = "getLiveScores"
                         /\ calls[d].fn = "getSchedule"
                         /\ calls[c].key = "live-scores:" \o calls[d].arg)
                        => /\ calls[c].key # calls[d].key
                           /\ calls[c].endpoint = calls[d].endpoint)
    /\ [][\A c \in Calls :
            calls'[c] # calls[c] => OthersKept(calls'[c].key)]_vars

\* Live scores were fetched and cached; then, with that entry unexpired, the
\* schedule of the same date was fetched from the same endpoint and cached
\* under its own key.
C24_Witness ==
    \E c, d \in Calls :
        /\ c < d /\ c \notin calls[d].during
        /\ calls[c].fn = "getLiveScores" /\ calls[d].fn = "getSchedule"
        /\ calls[c].endpoint = calls[d].endpoint
        /\ Returned1(c) /\ Returned1(d)
        /\ calls[c].fetches = 1 /\ calls[d].fetches = 1
        /\ Truthy(calls[c].ret)
        /\ calls[c].key \in DOMAIN cache /\ calls[d].key \in DOMAIN cache
        /\ written[calls[c].key].by = c
        /\ now <= cache[calls[c].key].expiresAt

\* C29: a call yields only while it awaits the upstream: its cache check and
\* the start of its upstream call are one step, and the delivery of the
\* upstream result, the cache write and the return are one step; in neither
\* does another call move, the clock advance or the sweep run.
C29_YieldsOnlyAtUpstream ==
    [][\A c \in Calls :
        /\ (calls[c].pc = "idle" /\ calls'[c].pc # "idle") =>
            /\ calls'[c].pc \in {"fetching", "returned"}
            /\ calls'[c].pc = "fetching" <=> calls'[c].fetches = 1
            /\ calls'[c].found.present <=> calls'[c].key \in DOMAIN cache
            /\ calls'[c].found.present =>
                    calls'[c].found.entry = cache[calls'[c].key]
            /\ calls'[c].pc = "returned" =>
                    calls'[c].ret = cache[calls'[c].key].data
            /\ \A d \in Calls \ {c} : calls'[d] = calls[d]
            /\ now' = now
            /\ OthersKept(calls'[c].key)
        /\ (calls[c].pc = "parsing" /\ calls'[c].pc # "parsing") =>
            /\ calls'[c].pc = "returned"
            /\ calls[c].key \in DOMAIN cache'
            /\ cache'[calls[c].key].data = calls'[c].ret
            /\ \A d \in Calls \ {c} : calls'[d] = calls[d]
            /\ now' = now
            /\ OthersKept(calls[c].key)]_vars

\* While one call is still awaiting the upstream, a call started after it
\* has checked the cache, called the upstream, written and returned.
C29_Witness ==
    \E c, d \in Calls :
        /\ c \in calls[d].during
        /\ InFlight(c)
        /\ Returned1(d) /\ calls[d].fetches = 1
        /\ IsSet(calls[d].key) /\ written[calls[d].key].by = d

\* C30: the TTL of an entry written by a call counts from the instant the
\* upstream result is written, not from the start of the call: the entry
\* expires at (instant of the write + TTL) and is returned until then.
C30_ExpiryFromWrite ==
    \A k \in DOMAIN written :
        (written[k].state = "set" /\ written[k].by \in Calls) =>
            /\ k \in DOMAIN cache =>
                    cache[k].expiresAt = written[k].at + written[k].ttl
            /\ now <= written[k].at + written[k].ttl =>
                    /\ k \in DOMAIN cache
                    /\ Returned(k) = written[k].data
            /\ now > written[k].at + written[k].ttl => Returned(k) = Null

\* A call that started no later than another call's write wrote later than
\* it, and its entry is still returned more than its TTL after that start.
C30_Witness ==
    \E c, d \in Calls :
        /\ c \in calls[d].during
        /\ calls[c].key # calls[d].key
        /\ IsSet(calls[c].key) /\ written[calls[c].key].by = c
        /\ IsSet(calls[d].key) /\ written[calls[d].key].by = d
        /\ written[calls[c].key].at > written[calls[d].key].at
        /\ now > written[calls[d].key].at + calls[c].ttl
        /\ Truthy(written[calls[c].key].data)
        /\ Returned(calls[c].key) = written[calls[c].key].data

-----------------------------------------------------------------------------
(* Claims about the HTTP handlers, checked under SpecRoutes *)

ADate == <<"1", "9", "7", "0", "-", "0", "1", "-", "0", "1">>
NotDates == {"01-01-1970", "1970-1-1", "now"}

\* C25: the games handler dispatches a GET on the date parameter: without a
\* date it calls getLiveScores and not getSchedule, with a date in the form
\* YYYY-MM-DD it calls getSchedule(date) and not getLiveScores, and with any
\* other date it answers 400 and calls no service function.
C25_GamesDispatch ==
    /\ [](\A c \in Calls :
            (Route = "games" /\ Started(c)) =>
                /\ calls[c].fn \in {"getLiveScores", "getSchedule", ""}
                /\ calls[c].fn = "getLiveScores" => calls[c].arg = ""
                /\ calls[c].fn = "getSchedule" => calls[c].arg = "1970-01-01"
                /\ calls[c].arg \in NotDates =>
                        /\ calls[c].pc = "answered"
                        /\ calls[c].response.status = 400
                        /\ calls[c].fn = "" /\ calls[c].fetches = 0)
    /\ [][\A c \in Calls, req \in GamesRequests :
            (req.method = "GET" /\ GamesHandler(c, req)) =>
                IF req.param = NoDate
                THEN calls'[c].fn = "getLiveScores" /\ calls'[c].fetches = 1
                ELSE IF req.param = ADate
                THEN /\ calls'[c].fn = "getSchedule"
                     /\ calls'[c].arg = "1970-01-01"
                     /\ calls'[c].endpoint = "/schedule/1970-01-01"
                     /\ calls'[c].fetches = 1
                ELSE /\ calls'[c].pc = "answered"
                     /\ calls'[c].response.status = 400
                     /\ calls'[c].fn = "" /\ calls'[c].fetches = 0]_vars

\* One request without a date was served by getLiveScores, and one with the
\* ten characters 01-01-1970 was answered 400.
C25_Witness ==
    \E c, d \in Calls :
        /\ Route = "games"
        /\ calls[c].fn = "getLiveScores" /\ Returned1(c)
        /\ Response(c).status = 200
        /\ calls[d].pc = "answered" /\ calls[d].arg = "01-01-1970"
        /\ Response(d).status = 400

\* C26: the players route calls getPlayerStats only for an id made of digits
\* and answers 400 to any other id without calling it; it answers 500 with
\* the rejection's message when the call rejects, and 200 with the value
\* when it resolves.
C26_PlayersRoute ==
    /\ [](\A c \in Calls :
            (Route = "players" /\ Started(c)) =>
                /\ calls[c].fn = "getPlayerStats" => calls[c].arg = "8478402"
                /\ calls[c].arg \in {"abc123", "12-3"} =>
                        /\ calls[c].pc = "answered"
                        /\ Response(c).status = 400
                        /\ calls[c].fn = "" /\ calls[c].fetches = 0
                /\ calls[c].pc = "rejected" =>
                        /\ Response(c).status = 500
                        /\ Response(c).message = calls[c].error
                        /\ calls[c].error \in {"fetch failed",
                                               "NHL API error: 404 Not Found"}
                /\ calls[c].pc = "returned" =>
                        /\ Response(c).status = 200
                        /\ Response(c).body = calls[c].ret)
    /\ [][\A c \in Calls, req \in PlayersRequests :
            PlayersRoute(c, req) =>
                IF req.param = <<"8", "4", "7", "8", "4", "0", "2">>
                THEN /\ calls'[c].fn = "getPlayerStats"
                     /\ calls'[c].key = "player:8478402"
                ELSE /\ calls'[c].pc = "answered"
                     /\ calls'[c].response.status = 400
                     /\ cache' = cache]_vars

\* The id abc123 was answered 400, and a request for 8478402 was answered
\* 500 with the upstream's 404 message.
C26_Witness ==
    \E c, d \in Calls :
        /\ Route = "players"
        /\ calls[c].pc = "answered" /\ calls[c].arg = "abc123"
        /\ Response(c).status = 400
        /\ calls[d].pc = "rejected"
        /\ Response(d) = [status |-> 500, error |-> "Internal server error",
                          message |-> "NHL API error: 404 Not Found"]

\* C27: the teams route answers 200 with the team when getTeamStats returns
\* one, 404 "Team not found" when it returns null, and 500 when it rejects;
\* null is never answered 500 and a rejection never 404.
C27_TeamsRoute ==
    \A c \in Calls :
        (Route = "teams" /\ Finished(c)) =>
            /\ (calls[c].pc = "returned" /\ calls[c].ret # Null) =>
                    Response(c) = [status |-> 200, body |-> calls[c].ret]
            /\ (calls[c].pc = "returned" /\ calls[c].ret = Null) =>
                    Response(c) = [status |-> 404, error |-> "Team not found"]
            /\ calls[c].pc = "rejected" =>
                    /\ Response(c).status = 500
                    /\ Response(c).message = calls[c].error
            /\ Response(c).status \in {200, 404, 500}

\* A team that is not in the standings was answered 404, and a request
\* whose standings fetch failed was answered 500.
C27_Witness ==
    \E c, d \in Calls :
        /\ Route = "teams"
        /\ Returned1(c) /\ calls[c].ret = Null /\ Truthy(calls[c].doc)
        /\ Response(c).status = 404
        /\ UpstreamFailed(d)
        /\ Response(d).status = 500

-----------------------------------------------------------------------------
(* The sweep on its timer.  The constructor runs at StartTime, so the       *)
(* setInterval callback is due at StartTime + n * CLEANUP_PERIOD for        *)
(* n = 1, 2, ... until destroy() clears the interval.  The store is written *)
(* to and never read, and the passage of time runs the callbacks that fall  *)
(* due.                                                                     *)

TimerInstants ==
    {StartTime + p * LIVE_SCORES + e : p \in 0..(MaxPeriods + 2), e \in {0, 1}}

\* The instants in (from, to] at which the callback is due
DueIn(from, to) ==
    {StartTime + n * CLEANUP_PERIOD : n \in 1..((to - StartTime) \div CLEANUP_PERIOD)}
    \ {d \in Int : d <= from}

\* Time passes up to t.  No set() happens in between, so the callbacks due
\* on the way leave what the last of them leaves.
PassTime_unstoppable(t) ==
    /\ t > now
    /\ now' = t
    /\ LET due == DueIn(now, t)
       IN  cache' = IF due # {}
                    THEN cleanup(cache, CHOOSE d \in due : \A e \in due : e <= d)
                    ELSE cache
    /\ UNCHANGED <<cleanupInterval, written, calls, workload>>

PassTime(t) ==
    /\ t > now
    /\ now' = t
    /\ LET due == DueIn(now, t)
       IN  cache' = IF cleanupInterval /\ due # {}
                    THEN cleanup(cache, CHOOSE d \in due : \A e \in due : e <= d)
                    ELSE cache
    /\ UNCHANGED <<cleanupInterval, written, calls, workload>>

NextTimer ==
    \/ \E k \in StoreKeys, t \in StoreTTLs : CacheSet(k, Doc(1), t)
    \/ \E k \in StoreKeys : CacheDelete(k)
    \/ Destroy
    \/ \E t \in TimerInstants : PassTime(t)

SpecTimer == InitStore /\ [][NextTimer]_vars

-----------------------------------------------------------------------------
(* Claims about the timed sweep, checked under SpecTimer *)

\* The last callback that fell due up to now; StartTime if none has
LastDue == StartTime + ((now - StartTime) \div CLEANUP_PERIOD) * CLEANUP_PERIOD

\* C31: while the timer is set, an entry that expired before a callback fell
\* due is gone from the mapping once that callback has run, read or not, so
\* the mapping never holds an entry that expired more than 60 s ago; and the
\* passage of time removes nothing else.
C31_SweptWithinPeriod ==
    /\ [](cleanupInterval =>
            \A k \in DOMAIN cache :
                /\ now - cache[k].expiresAt <= CLEANUP_PERIOD
                /\ LastDue > StartTime => cache[k].expiresAt >= LastDue)
    /\ [][now' > now /\ cleanupInterval =>
            \A k \in DOMAIN cache :
                k \in DOMAIN cache' <=>
                    ~(\E d \in DueIn(now, now') : d > cache[k].expiresAt)]_vars

\* A callback has removed an entry that was set and left alone.
C31_Witness ==
    /\ cleanupInterval
    /\ \E k \in StoreKeys :
        /\ IsSet(k)
        /\ written[k].ttl = LIVE_SCORES
        /\ k \notin DOMAIN cache
        /\ LastDue > StartTime
        /\ now = LastDue

\* C34: once destroy() has cleared the interval it is never set again and no
\* callback runs: an entry set afterwards and left alone stays in the
\* mapping as it was written, however long ago it expired, and a get() of
\* it would answer by the same expiry rule as before.
C34_NoSweepAfterDestroy ==
    /\ [](~cleanupInterval =>
            \A k \in StoreKeys :
                IsSet(k) =>
                    /\ k \in DOMAIN cache
                    /\ cache[k] = [data |-> written[k].data,
                                   expiresAt |-> written[k].at + written[k].ttl]
                    /\ Returned(k) = IF now <= written[k].at + written[k].ttl
                                     THEN written[k].data
                                     ELSE Null)
    /\ [][~cleanupInterval =>
            /\ ~cleanupInterval'
            /\ now' > now => cache' = cache]_vars

\* An entry set after destroy() is still held after two callbacks would have
\* fallen due since it expired.
C34_Witness ==
    /\ ~cleanupInterval
    /\ \E k \in StoreKeys :
        /\ IsSet(k)
        /\ k \in DOMAIN cache
        /\ DueIn(cache[k].expiresAt, now) # {}
        /\ now - cache[k].expiresAt > CLEANUP_PERIOD

-----------------------------------------------------------------------------
(* The upstream answering with payloads of every JSON type *)

FalsyBodies == {Null, Zero, False, EmptyString}
AnyBodies == FalsyBodies \cup {One, Doc(1)}

InitFalsy ==
    /\ Start
    /\ workload \in {{Query("getSchedule", "1970-01-01", NoAbbrev)},
                     {Query("getGameById", "2023020789", NoAbbrev)}}

NextFalsy ==
    \/ \E c \in Calls, q \in workload : Call(c, q.fn, q.arg, q.abbrev)
    \/ \E c \in Calls : FetchReject(c)
    \/ \E c \in Calls, r \in Responses : FetchResolve(c, r)
    \/ \E c \in Calls, data \in AnyBodies : JsonResolve(c, data)
    \/ \E t \in Instants : Tick(t)

SpecFalsy == InitFalsy /\ [][NextFalsy]_vars

\* C32: a falsy payload is stored like any other, and a call that finds an
\* unexpired entry at its key is served from it exactly when the entry's
\* value is truthy: over a falsy one it calls the upstream again.
C32_TruthyHit ==
    /\ [](\A c \in Calls :
            Started(c) /\ calls[c].found.present /\ calls[c].found.live =>
                /\ calls[c].fetches = 0 <=> Truthy(calls[c].found.entry.data)
                /\ calls[c].fetches = 0 =>
                        Returned1(c) /\ calls[c].ret = calls[c].found.entry.data
                /\ calls[c].fetches = 1 \/ calls[c].fetches = 0)
    /\ [][\A c \in Calls, data \in FalsyBodies :
            JsonResolve(c, data) =>
                /\ calls[c].key \in DOMAIN cache'
                /\ cache'[calls[c].key] =
                        [data |-> data, expiresAt |-> now + calls[c].ttl]
                /\ calls'[c].ret = data]_vars

\* 0 was stored and a later call within the TTL went to the upstream.
C32_Witness ==
    \E c \in Calls :
        /\ calls[c].found.present
        /\ calls[c].found.live
        /\ calls[c].found.entry.data = Zero
        /\ calls[c].fetches = 1
        /\ calls[c].key \in DOMAIN cache
        /\ cache[calls[c].key].data = Zero
        /\ now < cache[calls[c].key].expiresAt

-----------------------------------------------------------------------------
(* The store emptied by its owner while service calls await the upstream *)

InitInvalidate ==
    /\ Start
    /\ workload \in {{Query("getPlayerStats", id, NoAbbrev)} : id \in PlayerIds}
                    \cup {{Query("getGameById", id, NoAbbrev)} : id \in GameIds}

NextInvalidate ==
    \/ \E c \in Calls, q \in workload : Call(c, q.fn, q.arg, q.abbrev)
    \/ \E c \in Calls : FetchReject(c)
    \/ \E c \in Calls, r \in Responses : FetchResolve(c, r)
    \/ \E c \in Calls, data \in Bodies : JsonResolve(c, data)
    \/ \E q \in workload : CacheDelete(Plan(q.fn, q.arg, now).key)
    \/ CacheClear
    \/ Destroy
    \/ \E t \in Instants : Tick(t)

SpecInvalidate == InitInvalidate /\ [][NextInvalidate]_vars

\* The entry at k was last removed by delete(), clear() or destroy().
Invalidated(k) ==
    k \in DOMAIN written /\ written[k].state \in {"deleted", "cleared", "destroyed"}

\* C33: when the upstream answers a call successfully after a delete(k),
\* clear() or destroy() has removed the entry at the call's key k, the call
\* still writes: k holds the fetched value, expiring a full TTL after the
\* write, and the call returns that value.
C33_WriteAfterInvalidation ==
    [][\A c \in Calls, data \in Bodies :
            JsonResolve(c, data) /\ Invalidated(calls[c].key) =>
                /\ calls[c].key \in DOMAIN cache'
                /\ cache'[calls[c].key] =
                        [data |-> data, expiresAt |-> now + calls[c].ttl]
                /\ calls'[c].pc = "returned"
                /\ calls'[c].ret = data]_vars

\* The entry was in the store when the call began and had been removed by
\* its owner when the call wrote.
WroteAfterInvalidation(c) ==
    /\ Returned1(c)
    /\ calls[c].fetches = 1
    /\ calls[c].found.present
    /\ IsSet(calls[c].key)
    /\ written[calls[c].key].by = c
    /\ written[calls[c].key].prev = NoPrev
    /\ calls[c].key \in DOMAIN cache
    /\ cache[calls[c].key].data = calls[c].ret

C33_Witness == \E c \in Calls : WroteAfterInvalidation(c)

-----------------------------------------------------------------------------
(* Calls for different queries side by side.  The upstream answers each     *)
(* request with a document of the endpoint requested, in one of two         *)
(* versions.                                                                *)

Page(endpoint, version) ==
    [json |-> "object", endpoint |-> endpoint, id |-> version]

Versions == {1, 2}

MixWorkloads ==
    {{Query("getSchedule", "1970-01-01", NoAbbrev),
      Query("getSchedule", "1970-01-02", NoAbbrev)},
     {Query("getGameById", "2023020789", NoAbbrev),
      Query("getGameById", "2023020790", NoAbbrev)},
     {Query("getPlayerStats", "2023020789", NoAbbrev),
      Query("getGameById", "2023020789", NoAbbrev)},
     {LiveScoresQuery, Query("getSchedule", "1970-01-01", NoAbbrev)}}

InitMix == Start /\ workload \in MixWorkloads

NextMix ==
    \/ \E c \in Calls, q \in workload : Call(c, q.fn, q.arg, q.abbrev)
    \/ \E c \in Calls : FetchReject(c)
    \/ \E c \in Calls, r \in Responses : FetchResolve(c, r)
    \/ \E c \in Calls, v \in Versions :
            JsonResolve(c, Page(calls[c].endpoint, v))
    \/ Cleanup
    \/ \E t \in Instants : Tick(t)

SpecMix == InitMix /\ [][NextMix]_vars

\* The key and endpoint of query q made at some instant up to now
PlansOf(q) == {Plan(q.fn, q.arg, t) : t \in {u \in Instants : u <= now}}

\* C35: every entry of the store lies under the key of one of the callers'
\* queries and holds a document of that query's endpoint, written by a call
\* for that query which received it from the upstream; and a call returns a
\* document of its own query's endpoint.
C35_OwnValue ==
    /\ \A k \in DOMAIN cache :
        /\ IsSet(k)
        /\ written[k].data = cache[k].data
        /\ \E q \in workload :
            /\ [key |-> k, endpoint |-> cache[k].data.endpoint, ttl |-> written[k].ttl]
                    \in PlansOf(q)
            /\ written[k].by \in Calls
            /\ calls[written[k].by].fn = q.fn
            /\ calls[written[k].by].arg = q.arg
            /\ calls[written[k].by].key = k
    /\ \A c \in Calls :
        Returned1(c) =>
            /\ calls[c].ret.endpoint = calls[c].endpoint
            /\ [key |-> calls[c].key, endpoint |-> calls[c].ret.endpoint,
                ttl |-> calls[c].ttl]
                    \in PlansOf(Query(calls[c].fn, calls[c].arg, NoAbbrev))

\* Two calls for different queries were awaiting the upstream together, and
\* each one's document lies under its own key.
C35_Witness ==
    \E c, d \in Calls :
        /\ c \in calls[d].during
        /\ calls[c].key # calls[d].key
        /\ Returned1(c) /\ calls[c].fetches = 1
        /\ Returned1(d) /\ calls[d].fetches = 1
        /\ {calls[c].key, calls[d].key} \subseteq DOMAIN cache
        /\ cache[calls[c].key].data = calls[c].ret
        /\ cache[calls[d].key].data = calls[d].ret
        /\ calls[c].ret.endpoint # calls[d].ret.endpoint

-----------------------------------------------------------------------------
(* The cached service beside the service of api/_lib/nhl, over an upstream  *)
(* that answers each endpoint in one fixed way.  In this specification the  *)
(* variable workload holds the callers' queries and the upstream's answers. *)

Rejects == [kind |-> "reject"]
Fails == [kind |-> "status",
          response |-> [ok |-> FALSE, status |-> 404, statusText |-> "Not Found"]]
Serves(body) ==
    [kind |-> "json",
     response |-> [ok |-> TRUE, status |-> 200, statusText |-> "OK"],
     body |-> body]

FixedAnswers == {Rejects, Fails, Serves(Doc(1)), Serves(Doc(2)), Serves(Null)}

BothWorkloads ==
    {{LiveScoresQuery}, {StandingsQuery},
     {Query("getSchedule", "1970-01-01", NoAbbrev)},
     {Query("getGameById", "2023020789", NoAbbrev)},
     {Query("getTeamStats", "", <<"b", "o", "s">>)},
     {Query("getTeamStats", "", <<"x", "y", "z">>)},
     {LiveScoresQuery, Query("getSchedule", "1970-01-02", NoAbbrev)},
     {StandingsQuery, Query("getTeamStats", "", <<"B", "O", "S">>)}}

\* The endpoints the queries can lead to within the clock's range
EndpointsOf(queries) ==
    {Plan(q.fn, q.arg, t).endpoint : q \in queries, t \in Instants}

InitBoth ==
    /\ Start
    /\ \E queries \in BothWorkloads :
        workload \in [queries : {queries},
                      upstream : [EndpointsOf(queries) -> FixedAnswers]]

\* The upstream's answer to the request of call c
AnswerTo(c) == workload.upstream[calls[c].endpoint]

NextBoth ==
    \/ \E c \in Calls, q \in workload.queries : Call(c, q.fn, q.arg, q.abbrev)
    \/ \E c \in Calls :
            /\ calls[c].pc = "fetching"
            /\ AnswerTo(c).kind = "reject"
            /\ FetchReject(c)
    \/ \E c \in Calls :
            /\ calls[c].pc = "fetching"
            /\ AnswerTo(c).kind # "reject"
            /\ FetchResolve(c, AnswerTo(c).response)
    \/ \E c \in Calls :
            /\ calls[c].pc = "parsing"
            /\ JsonResolve(c, AnswerTo(c).body)
    \/ Cleanup
    \/ \E t \in Instants : Tick(t)

SpecBoth == InitBoth /\ [][NextBoth]_vars

\* api/_lib/nhl: what fetchNHL gives for an answer of the upstream, and what
\* the service function makes of it (getTeamStats scans the standings)
LibFetch(answer) ==
    CASE answer.kind = "reject" ->
            [pc |-> "rejected", ret |-> Null, error |-> "fetch failed"]
      [] answer.kind = "status" ->
            [pc |-> "rejected", ret |-> Null,
             error |-> "NHL API error: " \o ToString(answer.response.status)
                       \o " " \o answer.response.statusText]
      [] OTHER -> [pc |-> "returned", ret |-> answer.body, error |-> ""]

LibResult(fn, abbrev, answer) ==
    LET fetched == LibFetch(answer)
    IN  IF fn # "getTeamStats" \/ fetched.pc = "rejected" THEN fetched
        ELSE IF fetched.ret = Null
        THEN [pc |-> "rejected", ret |-> Null, error |-> TypeErrorMessage]
        ELSE [pc |-> "returned",
              ret |-> findTeam(fetched.ret.standings, abbrev), error |-> ""]

Result(c) == [pc |-> calls[c].pc, ret |-> calls[c].ret, error |-> calls[c].error]

\* C36: over a fixed upstream, a call of the cached service requests, if it
\* requests anything, the endpoint the same call of api/_lib/nhl requests,
\* at most once, and it ends as that call ends: with the same value or the
\* same error.
C36_SameAsUncached ==
    /\ [](\A c \in Calls :
            /\ calls[c].fetches \in {0, 1}
            /\ Finished(c) =>
                Result(c) = LibResult(calls[c].fn, calls[c].abbrev, AnswerTo(c)))
    /\ [][\A c \in Calls, q \in workload.queries :
            Call(c, q.fn, q.arg, q.abbrev) =>
                /\ calls'[c].endpoint = LibEndpoint(q.fn, q.arg, now)
                /\ Finished(c)' =>
                    Result(c)' =
                        LibResult(q.fn, q.abbrev,
                                  workload.upstream[LibEndpoint(q.fn, q.arg, now)])]_vars

\* A call was served from the cache, after midnight, with what the upstream
\* serves for the new day.
C36_Witness ==
    \E c, d \in Calls :
        /\ Returned1(d) /\ calls[d].fetches = 1
        /\ Returned1(c) /\ calls[c].fetches = 0
        /\ calls[c].key = calls[d].key
        /\ calls[c].endpoint = "/standings/1970-01-02"
        /\ calls[c].ret = AnswerTo(c).body
        /\ \E e \in DOMAIN workload.upstream :
                workload.upstream[e] # AnswerTo(c)

====
